---- MODULE Spec2Model ----
(***************************************************************************)
(* The `bisect` command of now-cli: reference resolution, the paged        *)
(* history fetch and the bisection loop of main() (src/bin/now.js, the     *)
(* revision with the --run oracle; packages/now-cli/.../bisect/index.ts is *)
(* the same function with the interactive oracle only).                    *)
(*                                                                         *)
(* A deployment is identified by a small integer, standing for its url.    *)
(* The remote store is the environment: project "A" owns the deployments   *)
(* 1..MaxDep, deployment d created at time 2*d, and project "B" owns the   *)
(* deployment MaxDep + 1.  The history query lists the production          *)
(* deployments created strictly before `until` (main() asks for            *)
(* bad.createdAt + 1 to get the bad one first), newest first, and its      *)
(* cursor is the creation time of the last record of the page, or one      *)
(* less.  Sequences are 1-based here and 0-based in the source; Slice and  *)
(* Splice do the conversion.                                               *)
(***************************************************************************)
EXTENDS Integers, Sequences, FiniteSets

VARIABLES
    target,                \* remote store: deployment -> "production" | "preview"
    slack,                 \* remote store: how far below the last record the cursor lies
    leak,                  \* remote store: TRUE iff a history page may hold another project's record
    badArg, goodArg,       \* what the operator supplies as bad / good reference
    pathArg,               \* the --path argument, "" when absent
    badPath, goodPath,     \* the path of the bad / good url, "/" when it has none
    pathAnswer,            \* what the operator answers when asked for the subpath
    run,                   \* TRUE iff a --run script is given
    pc,                    \* position of main()
    badDeploymentPromise, goodDeploymentPromise, projectPromise,
    badDeployment, goodDeployment, project,
    issued,                \* remote requests issued so far, other than history pages
    next,                  \* `next` of the fetch loop; 0 stands for undefined
    deployments,           \* `deployments`: accumulated history, then the window
    requests,              \* history page requests issued, with what came back
    fetched,               \* the accumulated history when the fetch loop ended
    lastBad,               \* `lastBad`
    log,                   \* the candidates classified so far, with their verdicts
    exitCode,              \* exit code of the last start of the run script
    subpath,               \* `subpath`
    notes,                 \* the advisories printed with output.note
    reported,              \* the deployment printed as the first bad one
    status,                \* "running", or how main() completed
    error                  \* the diagnostic main() printed on failure

vars == <<target, slack, leak, badArg, goodArg, pathArg, badPath, goodPath,
          pathAnswer, run, pc, badDeploymentPromise, goodDeploymentPromise,
          projectPromise, badDeployment, goodDeployment, project, issued, next,
          deployments, requests, fetched, lastBad, log, exitCode, subpath,
          notes, reported, status, error>>

\* ------------------------------------------------------------------ bounds

\* Number of deployments of project "A" in the remote store.
MaxDep == 8

\* Page size of the history query (the source asks for 100 per page).
PageLimit == 3

\* ------------------------------------------------------------ remote store

Foreign == MaxDep + 1
DepIds == 1..(MaxDep + 1)
Null == -1

CreatedAt(d) == IF d = Foreign THEN 5 ELSE 2 * d

ProjectOf(d) == IF d = Foreign THEN "B" ELSE "A"

\* What the operator can type: a hostname of a deployment, a hostname the
\* store does not know, a string without hostname, or nothing.
Unknown == -2
NoHost == -3
Blank == -4
RefInputs == DepIds \cup {Unknown, NoHost, Blank}

\* JS slice(a, b) and splice(i, 1) on a 0-based array.
Slice(s, a, b) == SubSeq(s, a + 1, b)

Splice(s, i) == SubSeq(s, 1, i) \o SubSeq(s, i + 2, Len(s))

Min(a, b) == IF a < b THEN a ELSE b

\* The newest deployment of a non-empty set.
Newest(S) == CHOOSE d \in S : \A e \in S : CreatedAt(e) <= CreatedAt(d)

RECURSIVE NewestFirst(_)
NewestFirst(S) ==
    IF S = {} THEN <<>>
    ELSE LET d == Newest(S) IN <<d>> \o NewestFirst(S \ {d})

\* GET /v6/deployments?projectId=..&target=production&state=READY&until=..
\* The deployments of the project that are listed, created before `until`;
\* a store that leaks lists the other project's deployment with them.
Listed(tg, pid, until) ==
    {d \in DepIds : /\ (ProjectOf(d) = pid \/ leak)
                    /\ tg[d] = "production"
                    /\ (until # 0 => CreatedAt(d) < until)}

\* One page of the answer: at most PageLimit records newest-first, and the
\* cursor of the next page when records remain (0: no cursor).
HistoryPage(tg, sl, pid, until) ==
    LET all == NewestFirst(Listed(tg, pid, until))
        page == SubSeq(all, 1, Min(PageLimit, Len(all)))
    IN [deployments |-> page,
        next |-> IF Len(all) > PageLimit
                 THEN CreatedAt(page[Len(page)]) - sl ELSE 0]

\* ------------------------------------------------------- pieces of main()

\* The url main() compares history records with: goodDeployment.url.
UrlOf(d) == d

\* `if (badDeployment.projectId !== goodDeployment.projectId)`
CrossProject(b, g) == ProjectOf(b) # ProjectOf(g)

\* Faulty variant of OrderingViolation: equal creation times are refused.
OrderingViolationOrEqual(b, g) == CreatedAt(b) <= CreatedAt(g)

\* `if (badDeployment.createdAt < goodDeployment.createdAt)`
OrderingViolation(b, g) == CreatedAt(b) < CreatedAt(g)

\* `let next = badDeployment.createdAt + 1`
FirstUntil(b) == CreatedAt(b) + 1

\* Index (0-based) of the first record of the page whose url is `good`,
\* or -1: the for loop over newDeployments.
IndexOfGood(page, good) ==
    IF \E i \in 1..Len(page) : UrlOf(page[i]) = good
    THEN (CHOOSE i \in 1..Len(page) :
             /\ UrlOf(page[i]) = good
             /\ \A j \in 1..(i - 1) : UrlOf(page[j]) # good) - 1
    ELSE -1

\* Faulty variant of NewDeployments: records of another project than the
\* good reference's are dropped from the page.
NewDeploymentsOwnProject(page, good) ==
    LET Own(d) == ProjectOf(d) = ProjectOf(good)
        own == SelectSeq(page, Own)
    IN IF IndexOfGood(own, good) >= 0
       THEN Slice(own, 0, IndexOfGood(own, good) + 1)
       ELSE own

\* `newDeployments = newDeployments.slice(0, i + 1)` when good is in the page.
NewDeployments(page, good) ==
    IF IndexOfGood(page, good) >= 0
    THEN Slice(page, 0, IndexOfGood(page, good) + 1)
    ELSE page

\* Faulty variants of NextAfterPage: `next` is not cleared when good is in
\* the page;
\* the cursor is moved up before it is sent back.
NextKeepsCursor(res, good) == res.next

NextAboveCursor(res, good) ==
    IF IndexOfGood(res.deployments, good) >= 0 \/ res.next = 0
    THEN 0 ELSE res.next + 2

\* `next = res.pagination.next`, then `next = undefined` when good is in the page.
NextAfterPage(res, good) ==
    IF IndexOfGood(res.deployments, good) >= 0 THEN 0 ELSE res.next

\* Faulty variant of MiddleIndex: the index of an even-length window is the
\* last one of its newer half.
MiddleIndexNewerHalf(w) == (Len(w) - 1) \div 2

\* `const middleIndex = Math.floor(deployments.length / 2)`
MiddleIndex(w) == Len(w) \div 2

\* Faulty variants of OnGood: the candidate is kept; the older half is kept.
OnGoodKeepsCandidate(w, m) == Slice(w, 0, m + 1)

OnGoodKeepsOlder(w, m) == Slice(w, m + 1, Len(w))

\* `deployments = deployments.slice(0, middleIndex)`
OnGood(w, m) == Slice(w, 0, m)

\* Faulty variant of OnBad: the candidate stays in the window.
OnBadKeepsCandidate(w, m) == Slice(w, m, Len(w))

\* Faulty variant of OnBad: the newer half is kept.
OnBadKeepsNewer(w, m) == Slice(w, 0, m)

\* `deployments = deployments.slice(middleIndex + 1)`
OnBad(w, m) == Slice(w, m + 1, Len(w))

\* Faulty variants of OnSkip: the records around the candidate change
\* places; the records newer than the candidate go with it.
OnSkipReorders(w, m) == Slice(w, m + 1, Len(w)) \o Slice(w, 0, m)

OnSkipDropsNewer(w, m) == Slice(w, m + 1, Len(w))

\* Faulty variant of OnSkip: a skip is treated like a good verdict.
OnSkipHalves(w, m) == Slice(w, 0, m)

\* `deployments.splice(middleIndex, 1)`
OnSkip(w, m) == Splice(w, m)

\* The window after a verdict: the if / else if chain on `action`.
ApplyAction(w, m, action) ==
    CASE action = "good" -> OnGood(w, m)
      [] action = "bad" -> OnBad(w, m)
      [] action = "skip" -> OnSkip(w, m)
      [] OTHER -> w

\* Faulty variant of LastBadAfter: a skipped candidate becomes lastBad too.
LastBadOnSkip(lb, w, m, action) ==
    IF action \in {"bad", "skip"} THEN w[m + 1] ELSE lb

\* Faulty variant of LastBadAfter: a bad verdict does not move lastBad.
LastBadStale(lb, w, m, action) == lb

\* `lastBad` after a verdict.
LastBadAfter(lb, w, m, action) == IF action = "bad" THEN w[m + 1] ELSE lb

\* Faulty variant of ActionOfExit: 125 is not told apart from a failure.
ActionOfExitNoSkip(code) == IF code = 0 THEN "good" ELSE "bad"

\* The verdict of the scripted oracle for an exit code.
ActionOfExit(code) ==
    IF code = 0 THEN "good"
    ELSE IF code = 125 THEN "skip"
    ELSE "bad"

Actions == {"good", "bad", "skip"}

\* Exit codes the test program is run with in the model.
ExitCodes == {-1, 0, 1, 125, 143}

\* `typeof proc.exitCode !== 'number'`: the script was not run, or not yet.
NoExit == 1000

\* Paths of the model; "" is an absent --path, "/" a url without path.
Paths == {"/a", "/b"}

\* ------------------------------------------------------------------ state

\* At most one deployment of the store is not a production deployment.
Stores ==
    {tg \in [DepIds -> {"production", "preview"}] :
        Cardinality({d \in DepIds : tg[d] = "preview"}) <= 1}

\* The state when main() is entered, for given sets of stores and inputs.
Start(stores, slacks, leaks, bads, goods, pathArgs, refPaths, answers) ==
    /\ target \in stores
    /\ slack \in slacks
    /\ leak \in leaks
    /\ badArg \in bads
    /\ goodArg \in goods
    /\ pathArg \in pathArgs
    /\ badPath \in refPaths
    /\ goodPath \in refPaths
    /\ pathAnswer \in answers
    /\ run \in BOOLEAN
    /\ pc = "bad"
    /\ badDeploymentPromise = "null"
    /\ goodDeploymentPromise = "null"
    /\ projectPromise = "null"
    /\ badDeployment = Null
    /\ goodDeployment = Null
    /\ project = "null"
    /\ issued = {}
    /\ next = 0
    /\ deployments = <<>>
    /\ requests = <<>>
    /\ fetched = <<>>
    /\ lastBad = Null
    /\ log = <<>>
    /\ exitCode = NoExit
    /\ subpath = pathArg
    /\ notes = {}
    /\ reported = Null
    /\ status = "running"
    /\ error = "none"

\* Any store and any pair of references; hostnames without path, no --path,
\* and the subpath typed at the prompt.
Init == Start(Stores, {0, 1}, {FALSE}, RefInputs, RefInputs, {""}, {"/"}, {"/a"})

store == <<target, slack, leak, badArg, goodArg, pathArg, badPath, goodPath,
           pathAnswer, run>>
promises == <<badDeploymentPromise, goodDeploymentPromise, projectPromise,
              badDeployment, goodDeployment, project>>
search == <<next, deployments, requests, fetched, lastBad, log, exitCode,
            reported>>

inputs == <<subpath, notes>>

\* `return 1` after output.error(..).
\* Faulty variant of Fail: the run ends with status 0.
FailReturnsZero(why) ==
    /\ pc' = "done"
    /\ status' = "ok"
    /\ error' = why

Fail(why) ==
    /\ pc' = "done"
    /\ status' = "failed"
    /\ error' = why

\* The bad url has a path and a different subpath is already chosen:
\* output.note, the path of the url is ignored.
NoteForBad(sp, bp) == bp # "/" /\ sp # "" /\ sp # bp

\* `subpath` after the bad url is parsed.
SubpathAfterBad(sp, bp) ==
    IF bp # "/" /\ ~(sp # "" /\ sp # bp) THEN bp ELSE sp

\* Faulty variant of NoteForGood: the note is written without a subpath to
\* compare the path with.
NoteForGoodAlways(sp, gp) == gp # "/" /\ sp # gp

\* The good url has a path and a different subpath is already chosen:
\* output.note.
NoteForGood(sp, gp) == gp # "/" /\ sp # "" /\ sp # gp

\* The bad reference: prompt, parse, and the requests that are started for
\* it (getDeployment now; the project and the org lookups once it has
\* answered).
ParseBad ==
    /\ pc = "bad"
    /\ status = "running"
    /\ IF badArg = Blank
       THEN /\ pc' = "good"
            /\ UNCHANGED <<badDeploymentPromise, projectPromise, issued,
                           inputs, status, error>>
       ELSE IF badArg = NoHost
       THEN /\ Fail("no hostname")
            /\ UNCHANGED <<badDeploymentPromise, projectPromise, issued,
                           inputs>>
       ELSE /\ subpath' = SubpathAfterBad(subpath, badPath)
            /\ notes' = IF NoteForBad(subpath, badPath)
                        THEN notes \cup {"bad"} ELSE notes
            /\ badDeploymentPromise' = "pending"
            /\ projectPromise' = "waiting"
            /\ issued' = issued \cup {"bad"}
            /\ pc' = "good"
            /\ UNCHANGED <<status, error>>
    /\ UNCHANGED <<store, search, goodDeploymentPromise, badDeployment,
                   goodDeployment, project>>

\* Faulty variant of ParseGood: getDeployment is called before the hostname
\* is looked at.
ParseGoodRequestsFirst ==
    /\ pc = "good"
    /\ status = "running"
    /\ IF goodArg = Blank
       THEN /\ pc' = "subpath"
            /\ UNCHANGED <<goodDeploymentPromise, issued, notes, status,
                           error>>
       ELSE IF goodArg = NoHost
       THEN /\ Fail("no hostname")
            /\ issued' = issued \cup {"good"}
            /\ UNCHANGED <<goodDeploymentPromise, notes>>
       ELSE /\ notes' = IF NoteForGood(subpath, goodPath)
                        THEN notes \cup {"good"} ELSE notes
            /\ goodDeploymentPromise' = "pending"
            /\ issued' = issued \cup {"good"}
            /\ pc' = "subpath"
            /\ UNCHANGED <<status, error>>
    /\ UNCHANGED <<store, search, subpath, badDeploymentPromise,
                   projectPromise, badDeployment, goodDeployment, project>>

\* The good reference: prompt, parse, getDeployment.
ParseGood ==
    /\ pc = "good"
    /\ status = "running"
    /\ IF goodArg = Blank
       THEN /\ pc' = "subpath"
            /\ UNCHANGED <<goodDeploymentPromise, issued, notes, status,
                           error>>
       ELSE IF goodArg = NoHost
       THEN /\ Fail("no hostname")
            /\ UNCHANGED <<goodDeploymentPromise, issued, notes>>
       ELSE /\ notes' = IF NoteForGood(subpath, goodPath)
                        THEN notes \cup {"good"} ELSE notes
            /\ goodDeploymentPromise' = "pending"
            /\ issued' = issued \cup {"good"}
            /\ pc' = "subpath"
            /\ UNCHANGED <<status, error>>
    /\ UNCHANGED <<store, search, subpath, badDeploymentPromise,
                   projectPromise, badDeployment, goodDeployment, project>>

\* `if (!subpath)`: the operator is asked for the subpath.
AskSubpath ==
    /\ pc = "subpath"
    /\ status = "running"
    /\ subpath' = IF subpath = "" THEN pathAnswer ELSE subpath
    /\ pc' = "retrieve"
    /\ UNCHANGED <<store, search, promises, issued, notes, status, error>>

\* getDeployment(client, bad) answers; the `then` callbacks start the
\* project and the org lookups, and throw when there is no deployment to
\* read.
ResolveBad ==
    /\ status = "running"
    /\ badDeploymentPromise = "pending"
    /\ IF badArg \in DepIds
       THEN /\ badDeploymentPromise' = "fulfilled"
            /\ badDeployment' = badArg
            /\ projectPromise' = "pending"
            /\ issued' = issued \cup {"project", "org"}
       ELSE \E answer \in {"fulfilled", "rejected"} :
            /\ badDeploymentPromise' = answer
            /\ badDeployment' = Null
            /\ projectPromise' = "rejected"
            /\ UNCHANGED issued
    /\ UNCHANGED <<store, search, inputs, pc, goodDeploymentPromise,
                   goodDeployment, project, status, error>>

\* getDeployment(client, good) answers.
ResolveGood ==
    /\ status = "running"
    /\ goodDeploymentPromise = "pending"
    /\ IF goodArg \in DepIds
       THEN /\ goodDeploymentPromise' = "fulfilled"
            /\ goodDeployment' = goodArg
       ELSE \E answer \in {"fulfilled", "rejected"} :
            /\ goodDeploymentPromise' = answer
            /\ goodDeployment' = Null
    /\ UNCHANGED <<store, search, inputs, pc, badDeploymentPromise,
                   projectPromise, badDeployment, project, issued, status,
                   error>>

\* getProjectByIdOrName answers: the project, or a ProjectNotFound.
ResolveProject ==
    /\ status = "running"
    /\ projectPromise = "pending"
    /\ projectPromise' = "fulfilled"
    /\ project' \in {ProjectOf(badDeployment), "ProjectNotFound"}
    /\ UNCHANGED <<store, search, inputs, pc, badDeploymentPromise,
                   goodDeploymentPromise, badDeployment, goodDeployment,
                   issued, status, error>>

Settled(p) == p \in {"null", "fulfilled"}

AnyRejected ==
    \/ badDeploymentPromise = "rejected"
    \/ goodDeploymentPromise = "rejected"
    \/ projectPromise = "rejected"

\* Faulty variant of Validation: the answer of the project lookup is not
\* looked at.
ValidationSkipsProject ==
    IF badDeployment = Null THEN "bad deployment"
    ELSE IF goodDeployment = Null THEN "good deployment"
    ELSE IF CrossProject(badDeployment, goodDeployment) THEN "same project"
    ELSE IF OrderingViolation(badDeployment, goodDeployment) THEN "older"
    ELSE "pass"

\* The checks between Promise.all and the fetch loop, in the order of the
\* source; "pass" when none of them returns.
Validation ==
    IF badDeployment = Null THEN "bad deployment"
    ELSE IF goodDeployment = Null THEN "good deployment"
    ELSE IF project = "null" THEN "project"
    ELSE IF project = "ProjectNotFound" THEN "project not found"
    ELSE IF CrossProject(badDeployment, goodDeployment) THEN "same project"
    ELSE IF OrderingViolation(badDeployment, goodDeployment) THEN "older"
    ELSE "pass"

\* `await Promise.all([...])` and the checks that follow it.
Retrieve ==
    /\ pc = "retrieve"
    /\ status = "running"
    /\ IF AnyRejected
       THEN /\ pc' = "done"
            /\ status' = "threw"
            /\ error' = "exception"
            /\ UNCHANGED <<next, deployments>>
       ELSE /\ Settled(badDeploymentPromise)
            /\ Settled(goodDeploymentPromise)
            /\ Settled(projectPromise)
            /\ IF Validation = "pass"
               THEN /\ pc' = "fetch"
                    /\ next' = FirstUntil(badDeployment)
                    /\ deployments' = <<>>
                    /\ UNCHANGED <<status, error>>
               ELSE /\ Fail(Validation)
                    /\ UNCHANGED <<next, deployments>>
    /\ UNCHANGED <<store, promises, inputs, issued, requests, fetched,
                   lastBad, log, exitCode, reported>>

\* One iteration of the do / while fetch loop: the request, the search for
\* the good record in the page, the concat, and the loop condition.
FetchPage ==
    /\ pc = "fetch"
    /\ status = "running"
    /\ LET res == HistoryPage(target, slack, project, next)
           good == UrlOf(goodDeployment)
       IN /\ requests' = Append(requests, [projectId |-> project,
                                           until |-> next,
                                           page |-> res.deployments,
                                           cursor |-> res.next])
          /\ next' = NextAfterPage(res, good)
          /\ deployments' = deployments \o NewDeployments(res.deployments, good)
          /\ pc' = IF NextAfterPage(res, good) # 0 THEN "fetch" ELSE "bisect"
    /\ UNCHANGED <<store, promises, inputs, issued, fetched, lastBad, log,
                   exitCode, reported, status, error>>

\* Faulty variant of EmptyHistory: a history of the seed alone is refused.
EmptyHistoryOrSeedOnly(ds) == Len(ds) <= 1

\* `if (!deployments.length)`
EmptyHistory(ds) == Len(ds) = 0

\* After the fetch loop: the empty-history check and `deployments.shift()`.
StartBisect ==
    /\ pc = "bisect"
    /\ status = "running"
    /\ fetched' = deployments
    /\ IF EmptyHistory(deployments)
       THEN /\ Fail("no deployments")
            /\ UNCHANGED <<deployments, lastBad>>
       ELSE /\ lastBad' = Head(deployments)
            /\ deployments' = Tail(deployments)
            /\ pc' = "loop"
            /\ UNCHANGED <<status, error>>
    /\ UNCHANGED <<store, promises, inputs, issued, next, requests, log,
                   exitCode, reported>>

\* The rest of one iteration of the while loop once the verdict is known.
Step(action) ==
    LET m == MiddleIndex(deployments)
    IN /\ log' = Append(log, [deployment |-> deployments[m + 1],
                              action |-> action])
       /\ lastBad' = LastBadAfter(lastBad, deployments, m, action)
       /\ deployments' = ApplyAction(deployments, m, action)
       /\ UNCHANGED <<store, promises, inputs, issued, next, requests,
                      fetched, reported, pc, status, error>>

\* The operator picks Good, Bad or Skip at the prompt.
ClassifyInteractive ==
    /\ pc = "loop"
    /\ status = "running"
    /\ Len(deployments) > 0
    /\ ~run
    /\ UNCHANGED exitCode
    /\ \E action \in Actions : Step(action)

\* The run script is started and exits with a code.
ClassifyScripted ==
    /\ pc = "loop"
    /\ status = "running"
    /\ Len(deployments) > 0
    /\ run
    /\ \E code \in ExitCodes :
           /\ exitCode' = code
           /\ Step(ActionOfExit(code))

\* Faulty variant of SpawnFailure: the failed start counts as a bad verdict.
SpawnFailureIsBad ==
    /\ pc = "loop"
    /\ status = "running"
    /\ Len(deployments) > 0
    /\ run
    /\ exitCode' = NoExit
    /\ Step("bad")

\* The run script cannot be started: execa gives an Error without exit code.
SpawnFailure ==
    /\ pc = "loop"
    /\ status = "running"
    /\ Len(deployments) > 0
    /\ run
    /\ exitCode' = NoExit
    /\ Fail("spawn")
    /\ UNCHANGED <<store, promises, inputs, issued, next, deployments,
                   requests, fetched, lastBad, log, reported>>

\* Faulty variant of Report: without a bad verdict in the log the run fails
\* and prints nothing.
ReportNeedsBadVerdict ==
    /\ pc = "loop"
    /\ status = "running"
    /\ Len(deployments) = 0
    /\ IF \E i \in 1..Len(log) : log[i].action = "bad"
       THEN /\ reported' = lastBad
            /\ pc' = "done"
            /\ status' = "ok"
            /\ UNCHANGED error
       ELSE /\ Fail("no bad found")
            /\ UNCHANGED reported
    /\ UNCHANGED <<store, promises, inputs, issued, next, deployments,
                   requests, fetched, lastBad, log, exitCode>>

\* The window is empty: the first bad deployment is printed, `return 0`.
Report ==
    /\ pc = "loop"
    /\ status = "running"
    /\ Len(deployments) = 0
    /\ reported' = lastBad
    /\ pc' = "done"
    /\ status' = "ok"
    /\ UNCHANGED <<store, promises, inputs, issued, next, deployments,
                   requests, fetched, lastBad, log, exitCode, error>>

Next ==
    \/ ParseBad
    \/ ParseGood
    \/ AskSubpath
    \/ ResolveBad
    \/ ResolveGood
    \/ ResolveProject
    \/ Retrieve
    \/ FetchPage
    \/ StartBisect
    \/ ClassifyInteractive
    \/ ClassifyScripted
    \/ SpawnFailure
    \/ Report

Spec == Init /\ [][Next]_vars

\* A store that leaks: the history pages of a project may hold the other
\* project's deployment.
InitMixed ==
    Start(Stores, {0}, {TRUE}, RefInputs, RefInputs, {""}, {"/"}, {"/a"})

SpecMixed == InitMixed /\ [][Next]_vars

\* Every combination of --path, path of the bad url, path of the good url
\* and answer at the prompt, on one store.
InitPaths ==
    Start({[d \in DepIds |-> "production"]}, {0}, {FALSE},
          {4, Blank, NoHost}, {2, Blank, NoHost},
          {""} \cup Paths, {"/"} \cup Paths, {""} \cup Paths)

SpecPaths == InitPaths /\ [][Next]_vars

\* ----------------------------------------------------------------- claims

\* The candidate window when the bisection loop started.
Window0 == Tail(fetched)

\* The loop has started: `deployments.shift()` has been done.
Started == fetched # <<>>

\* Position (1-based) of a record in the initial window.
PosIn(w, d) == CHOOSE i \in 1..Len(w) : w[i] = d

\* Every verdict given so far is the ground truth of a history whose k
\* newest candidates are bad and whose other candidates are good.
Truthful(k) ==
    \A i \in 1..Len(log) :
        log[i].action = IF PosIn(Window0, log[i].deployment) <= k
                        THEN "bad" ELSE "good"

\* A step of the loop has just classified a candidate with this verdict.
Stepped(action) ==
    /\ Len(log') = Len(log) + 1
    /\ log'[Len(log')].action = action

\* C1: with a single good->bad boundary at index k of the initial window
\* (the k+1 newest candidates bad, 0-based) and an oracle that answers the
\* ground truth, the record reported when the window is empty is the one at
\* index k; a window of 7 with the boundary between indices 2 and 3 takes
\* exactly 3 steps.
C1_TruthfulOracleFindsBoundary ==
    (status = "ok" /\ Started) =>
        \A k \in 1..Len(Window0) :
            Truthful(k) =>
                /\ lastBad = Window0[k]
                /\ (Len(Window0) = 7 /\ k = 3) => Len(log) = 3

C1_Witness ==
    /\ status = "ok"
    /\ Started
    /\ Len(Window0) = 7
    /\ Truthful(3)
    /\ Len(log) = 3
    /\ lastBad = Window0[3]

\* C2: whatever the verdicts, every step makes the window strictly shorter,
\* and the steps taken plus the records left never exceed the initial
\* length n, so the window is empty after at most n steps.
C2_StepsBounded ==
    /\ [](Started => Len(log) + Len(deployments) <= Len(Window0))
    /\ [][Len(log') = Len(log) + 1 => Len(deployments') < Len(deployments)]_vars

C2_Witness ==
    /\ Started
    /\ Len(Window0) >= 3
    /\ Len(log) = Len(Window0)
    /\ deployments = <<>>
    /\ \E i \in 1..Len(log) : log[i].action = "good"
    /\ \E i \in 1..Len(log) : log[i].action = "bad"

\* C3 as stated: on a good verdict the new window is window[mid+1 .. end],
\* the records older than the candidate, and lastBad is unchanged.
C3_GoodKeepsOlder ==
    [][Stepped("good") =>
         /\ deployments' = SubSeq(deployments, Len(deployments) \div 2 + 2,
                                  Len(deployments))
         /\ lastBad' = lastBad]_vars

\* C3, amended: on a good verdict for the candidate at mid = floor(len/2)
\* the candidate and everything older are discarded: the new window is
\* window[0 .. mid-1], the records newer than the candidate, and lastBad is
\* unchanged.
C3_GoodKeepsNewer ==
    [][Stepped("good") =>
         /\ deployments' = SubSeq(deployments, 1, Len(deployments) \div 2)
         /\ \A i \in 1..Len(deployments') :
                CreatedAt(deployments'[i]) > CreatedAt(log'[Len(log')].deployment)
         /\ lastBad' = lastBad]_vars

C3_Witness ==
    /\ Started
    /\ log # <<>>
    /\ log[Len(log)].action = "good"
    /\ Len(deployments) >= 2

\* C4 as stated: on a bad verdict lastBad becomes window[mid] and the new
\* window is window[0 .. mid-1], the records newer than the candidate.
C4_BadKeepsNewer ==
    [][Stepped("bad") =>
         /\ lastBad' = deployments[Len(deployments) \div 2 + 1]
         /\ deployments' = SubSeq(deployments, 1, Len(deployments) \div 2)]_vars

\* C4, amended: on a bad verdict for the candidate at mid = floor(len/2)
\* lastBad becomes window[mid] and the candidate and everything newer are
\* discarded: the new window is window[mid+1 .. end], the records older than
\* the candidate.
C4_BadKeepsOlder ==
    [][Stepped("bad") =>
         /\ lastBad' = deployments[Len(deployments) \div 2 + 1]
         /\ deployments' = SubSeq(deployments, Len(deployments) \div 2 + 2,
                                  Len(deployments))
         /\ \A i \in 1..Len(deployments') :
                CreatedAt(deployments'[i]) < CreatedAt(lastBad')]_vars

C4_Witness ==
    /\ Started
    /\ log # <<>>
    /\ log[Len(log)].action = "bad"
    /\ lastBad = log[Len(log)].deployment
    /\ Len(deployments) >= 2

\* C5: a skip removes exactly the candidate and keeps the other records in
\* order (length n-1); a good or a bad verdict shortens a window of length
\* n by at least ceil(n/2).
C5_SkipRemovesOne ==
    [][/\ Stepped("skip") =>
            /\ Len(deployments') = Len(deployments) - 1
            /\ \A i \in 1..Len(deployments') :
                   deployments'[i] =
                       IF i <= Len(deployments) \div 2
                       THEN deployments[i] ELSE deployments[i + 1]
       /\ (Stepped("good") \/ Stepped("bad")) =>
            Len(deployments) - Len(deployments') >= (Len(deployments) + 1) \div 2
      ]_vars

C5_Witness ==
    /\ Started
    /\ Len(log) >= 2
    /\ log[Len(log)].action = "skip"
    /\ log[Len(log) - 1].action # "skip"
    /\ Len(deployments) >= 2

\* The history records accumulated so far: `deployments` while fetching,
\* and the list as it was when the fetch loop ended afterwards.
Accumulated == IF Started THEN fetched ELSE deployments

Range(w) == {w[i] : i \in 1..Len(w)}

\* The good record is in the page of a request.
HadGood(r) == \E j \in 1..Len(r.page) : r.page[j] = goodDeployment

\* The oldest creation time among the records of the pages before request i.
OldestSeenBefore(i) ==
    LET seen == UNION {Range(requests[j].page) : j \in 1..(i - 1)}
    IN CreatedAt(CHOOSE d \in seen : \A e \in seen : CreatedAt(d) <= CreatedAt(e))

\* C6: when the bisection loop starts, lastBad is the resolved bad
\* reference and the bad reference is not in the candidate window.
C6_SeedIsBadReference ==
    (pc = "loop" /\ log = <<>>) =>
        /\ lastBad = badDeployment
        /\ badDeployment \notin Range(deployments)

\* C7: every record of the candidate window is another record than the bad
\* reference, strictly older than it, and not older than the good reference.
C7_WindowBetweenReferences ==
    (pc = "loop") =>
        \A i \in 1..Len(deployments) :
            /\ deployments[i] # badDeployment
            /\ CreatedAt(deployments[i]) < CreatedAt(badDeployment)
            /\ CreatedAt(deployments[i]) >= CreatedAt(goodDeployment)

\* C8: a page is followed by another request iff it carried a next cursor
\* and did not hold the good record; when the good record is in a page the
\* accumulated list ends with it, holds it once, and no request follows.
C8_FetchStopsAtGood ==
    /\ \A i \in 1..(Len(requests) - 1) :
           requests[i].cursor # 0 /\ ~HadGood(requests[i])
    /\ requests # <<>> =>
           LET last == requests[Len(requests)]
           IN /\ pc = "fetch" <=> (last.cursor # 0 /\ ~HadGood(last))
              /\ HadGood(last) =>
                    /\ Accumulated # <<>>
                    /\ Accumulated[Len(Accumulated)] = goodDeployment
                    /\ \A i \in 1..(Len(Accumulated) - 1) :
                           /\ Accumulated[i] # goodDeployment
                           /\ CreatedAt(Accumulated[i]) > CreatedAt(goodDeployment)

\* The good record is in page 2 of at least 3: two requests were made.
C8_Witness ==
    /\ pc = "bisect"
    /\ Len(requests) = 2
    /\ HadGood(requests[2])
    /\ requests[2].cursor # 0
    /\ requests[2].page[Len(requests[2].page)] # goodDeployment

\* No record is accumulated twice, and no listed record of the project
\* between the first and the last accumulated one is missing.
NoDuplicateNoGap ==
    /\ \A i, j \in 1..Len(Accumulated) : i # j => Accumulated[i] # Accumulated[j]
    /\ Accumulated # <<>> =>
           \A d \in Listed(target, project, FirstUntil(badDeployment)) :
               CreatedAt(d) >= CreatedAt(Accumulated[Len(Accumulated)])
                   => d \in Range(Accumulated)

\* C9 as stated: every request after the first carries an until equal to
\* the oldest createdAt seen so far minus one, and the accumulated sequence
\* has no duplicate and no gap.
C9_UntilIsOldestMinusOne ==
    /\ \A i \in 2..Len(requests) : requests[i].until = OldestSeenBefore(i) - 1
    /\ requests # <<>> => NoDuplicateNoGap

\* C9, amended: the first request carries until = bad.createdAt + 1 and
\* every later request carries the next cursor of the page before it,
\* unchanged; the accumulated sequence has no duplicate and no gap.
C9_UntilIsCursor ==
    /\ requests # <<>> => requests[1].until = CreatedAt(badDeployment) + 1
    /\ \A i \in 2..Len(requests) : requests[i].until = requests[i - 1].cursor
    /\ requests # <<>> => NoDuplicateNoGap

C9_Witness ==
    /\ Len(requests) = 3
    /\ Len(Accumulated) > 2 * PageLimit
    /\ requests[3].until = OldestSeenBefore(3)

\* C10: when the bad reference is older than the good one, or the two are
\* of different projects, the run fails without any history request and
\* without classifying a candidate; equal creation times are accepted.
C10_InvalidPairFailsEarly ==
    /\ (/\ badDeployment # Null
        /\ goodDeployment # Null
        /\ \/ CreatedAt(badDeployment) < CreatedAt(goodDeployment)
           \/ ProjectOf(badDeployment) # ProjectOf(goodDeployment))
       => /\ requests = <<>>
          /\ log = <<>>
          /\ pc \in {"bad", "good", "subpath", "retrieve", "done"}
          /\ pc = "done" => status \in {"failed", "threw"}
    /\ error = "older" => CreatedAt(badDeployment) < CreatedAt(goodDeployment)
    /\ error = "same project" =>
           ProjectOf(badDeployment) # ProjectOf(goodDeployment)

C10_Witness ==
    /\ pc = "done"
    /\ status = "failed"
    /\ error = "older"
    /\ ProjectOf(badDeployment) = ProjectOf(goodDeployment)
    /\ requests = <<>>

\* The window after a verdict on the candidate at floor(len / 2), written
\* out: good keeps the records before the candidate, bad those after it,
\* skip all but the candidate.
WindowAfter(w, action) ==
    CASE action = "good" -> SubSeq(w, 1, Len(w) \div 2)
      [] action = "bad" -> SubSeq(w, Len(w) \div 2 + 2, Len(w))
      [] action = "skip" ->
             [i \in 1..(Len(w) - 1) |->
                 IF i <= Len(w) \div 2 THEN w[i] ELSE w[i + 1]]

\* C11: the scripted oracle turns exit code 0 into good, 125 into skip and
\* every other integer, negative or signal-derived ones too, into bad, and
\* the verdict is applied with the window transition of the interactive
\* verdict of that name.
C11_ExitCodeIsVerdict ==
    [][(run /\ Len(log') = Len(log) + 1) =>
         LET action == log'[Len(log')].action
         IN /\ exitCode' # NoExit
            /\ action = IF exitCode' = 0 THEN "good"
                        ELSE IF exitCode' = 125 THEN "skip" ELSE "bad"
            /\ deployments' = WindowAfter(deployments, action)
            /\ lastBad' = IF action = "bad"
                          THEN deployments[Len(deployments) \div 2 + 1]
                          ELSE lastBad]_vars

C11_Witness ==
    /\ run
    /\ Len(log) >= 3
    /\ exitCode = -1
    /\ log[Len(log)].action = "bad"
    /\ \E i \in 1..Len(log) : log[i].action = "skip"
    /\ \E i \in 1..Len(log) : log[i].action = "good"

\* C12: when the run script cannot be started the run ends at once with a
\* failure: no verdict is applied, lastBad stays, nothing more is
\* classified and no first bad deployment is printed; a script that exits
\* with a code, zero or not, never ends the run this way.
C12_SpawnFailureAborts ==
    /\ [](error = "spawn" =>
             /\ pc = "done"
             /\ status = "failed"
             /\ exitCode = NoExit
             /\ reported = Null)
    /\ [][(run /\ pc = "loop" /\ deployments # <<>> /\ exitCode' = NoExit) =>
             /\ error' = "spawn"
             /\ status' = "failed"
             /\ deployments' = deployments
             /\ lastBad' = lastBad
             /\ log' = log]_vars
    /\ [][(run /\ exitCode' # NoExit /\ Len(log') = Len(log) + 1) =>
             (error' = "none" /\ status' = "running")]_vars

C12_Witness ==
    /\ error = "spawn"
    /\ status = "failed"
    /\ log # <<>>
    /\ deployments # <<>>
    /\ exitCode = NoExit

NoBadVerdict == \A i \in 1..Len(log) : log[i].action # "bad"

\* C13 as stated: a non-empty window exhausted without any bad verdict ends
\* the run with the NoBadFound failure, not with the seed printed as the
\* first bad deployment.
C13_NoBadFoundIsFailure ==
    (pc = "done" /\ Started /\ log # <<>> /\ deployments = <<>> /\ NoBadVerdict)
        => (status = "failed" /\ reported = Null)

\* C13, amended: a window exhausted without any bad verdict (every
\* candidate good or skipped) ends the run with status 0 and the seed, the
\* first record of the fetched history, printed as the first bad
\* deployment; there is no NoBadFound failure.
C13_SeedIsReported ==
    (pc = "done" /\ Started /\ deployments = <<>> /\ NoBadVerdict)
        => /\ status = "ok"
           /\ error = "none"
           /\ lastBad = fetched[1]
           /\ reported = fetched[1]

C13_Witness ==
    /\ pc = "done"
    /\ status = "ok"
    /\ Len(log) >= 2
    /\ Len(log) = Len(Window0)
    /\ \A i \in 1..Len(log) : log[i].action = "skip"
    /\ reported = fetched[1]

C14_EmptyReached ==
    /\ pc = "done"
    /\ error = "no deployments"
    /\ requests # <<>>

\* The records of the pages fetched so far belong to more than one project.
MixedPages ==
    \E i, j \in 1..Len(requests) :
        \E d \in Range(requests[i].page), e \in Range(requests[j].page) :
            ProjectOf(d) # ProjectOf(e)

\* The records a page adds to the history: all of it, or the part up to
\* and including the good reference.
TakenFrom(page) ==
    IF goodDeployment \in Range(page)
    THEN SubSeq(page, 1, CHOOSE i \in 1..Len(page) : page[i] = goodDeployment)
    ELSE page

RECURSIVE TakenUpTo(_)
TakenUpTo(n) ==
    IF n = 0 THEN <<>> ELSE TakenUpTo(n - 1) \o TakenFrom(requests[n].page)

\* C15 as stated: when the fetched pages hold records of more than one
\* project the fetch fails (HistoryMismatch) and no candidate is classified.
C15_MixedHistoryFails ==
    (MixedPages /\ pc \in {"bisect", "loop", "done"})
        => (log = <<>> /\ (pc = "done" => status = "failed"))

\* C15, amended: every history request names the project of the bad
\* reference, and the records of a page are taken as the remote returns
\* them, whatever project they belong to: with records of more than one
\* project in the pages the fetch does not fail, the history is the
\* concatenation of the pages, and the run ends with status 0 unless the
\* run script cannot be started.
C15_HistoryTakenAsReturned ==
    /\ \A i \in 1..Len(requests) :
           requests[i].projectId = ProjectOf(badDeployment)
    /\ Accumulated = TakenUpTo(Len(requests))
    /\ (MixedPages /\ pc = "done") => (status = "ok" \/ error = "spawn")

C15_Witness ==
    /\ MixedPages
    /\ pc = "done"
    /\ status = "ok"
    /\ \E i \in 1..Len(log) :
           ProjectOf(log[i].deployment) # ProjectOf(badDeployment)

\* The subpath is settled: both urls were parsed and the prompt is past.
PathsChosen == pc \notin {"bad", "good", "subpath"} /\ error # "no hostname"

BadPathSupplied == badArg \notin {Blank, NoHost} /\ badPath # "/"

GoodPathSupplied == goodArg \notin {Blank, NoHost} /\ goodPath # "/"

\* C16 as stated: --path wins when present, otherwise the bad url's path is
\* used, and every supplied path of a url that differs from the subpath
\* finally used has its advisory.
C16_AdvisoryForEveryDiscard ==
    PathsChosen =>
        /\ pathArg # "" => subpath = pathArg
        /\ (pathArg = "" /\ BadPathSupplied) => subpath = badPath
        /\ (BadPathSupplied /\ badPath # subpath) => "bad" \in notes
        /\ (GoodPathSupplied /\ goodPath # subpath) => "good" \in notes

\* C16, amended: the subpath is --path when present, otherwise the bad
\* url's path when it has one, otherwise the answer at the prompt.  The
\* bad url's path has an advisory exactly when --path is present and
\* differs from it; the good url's path has one exactly when a subpath is
\* already chosen (--path or the bad url's path) and differs from it: with
\* neither, the good url's path is dropped without advisory and the
\* operator is asked.  An advisory never ends the run.
C16_SubpathAndNotes ==
    /\ [](PathsChosen =>
            LET chosen == IF pathArg # "" THEN pathArg
                          ELSE IF BadPathSupplied THEN badPath ELSE ""
            IN /\ subpath = IF chosen # "" THEN chosen ELSE pathAnswer
               /\ "bad" \in notes <=>
                      (BadPathSupplied /\ pathArg # "" /\ pathArg # badPath)
               /\ "good" \in notes <=>
                      (GoodPathSupplied /\ chosen # "" /\ chosen # goodPath))
    /\ [][notes' # notes => (status' = "running" /\ error' = "none")]_vars

C16_Witness ==
    /\ pc = "done"
    /\ status = "ok"
    /\ notes = {"bad", "good"}
    /\ subpath = pathArg
    /\ log # <<>>

\* The good url's path is dropped without advisory.
C16_SilentDiscard ==
    /\ pc = "done"
    /\ status = "ok"
    /\ GoodPathSupplied
    /\ subpath # goodPath
    /\ notes = {}

\* C17 as stated: when the bad or the good string has no hostname the run
\* fails before any remote request (getDeployment, project lookup, history
\* page), whichever of the two it is.
C17_NoRequestBeforeAbort ==
    error = "no hostname" =>
        /\ status = "failed"
        /\ issued = {}
        /\ requests = <<>>

\* C17, amended: when the bad or the good string has no hostname the run
\* fails before any history page is requested and before anything is
\* classified.  For the bad string no remote request has been issued; for
\* the good string the good reference is not resolved, but the resolution
\* of the bad reference (and after its answer the project and org lookups)
\* has been started when a bad string was given.
C17_NoHistoryBeforeAbort ==
    error = "no hostname" =>
        /\ pc = "done"
        /\ status = "failed"
        /\ requests = <<>>
        /\ log = <<>>
        /\ reported = Null
        /\ "good" \notin issued
        /\ badArg = NoHost => issued = {}
        /\ badArg # NoHost =>
               /\ goodArg = NoHost
               /\ "bad" \in issued <=> badArg # Blank

C17_Witness ==
    /\ error = "no hostname"
    /\ status = "failed"
    /\ goodArg = NoHost
    /\ issued = {"bad", "project", "org"}
    /\ requests = <<>>

\* C18 as stated: a bad url or a good url left blank at the prompt stands
\* for the latest or the oldest deployment, and the run goes on to fetch
\* the history instead of failing.
C18_BlankProceeds ==
    (/\ pc = "done"
     /\ badArg = Blank \/ goodArg = Blank
     /\ badArg \in (1..MaxDep) \cup {Blank}
     /\ goodArg \in (1..MaxDep) \cup {Blank})
        => /\ requests # <<>>
           /\ error \notin {"bad deployment", "good deployment"}

\* C19: the run returns 0 only when the window is exhausted and the first
\* bad deployment was printed; every fatal condition ends it with a
\* non-zero status, and after that nothing is classified or printed.
C19_ZeroOnlyAfterReport ==
    /\ [](status = "ok" =>
             /\ pc = "done"
             /\ error = "none"
             /\ Started
             /\ deployments = <<>>
             /\ reported = lastBad
             /\ reported # Null)
    /\ [](error # "none" <=> status \in {"failed", "threw"})
    /\ [](status \in {"failed", "threw"} => (pc = "done" /\ reported = Null))
    /\ [][status # "running" =>
             /\ status' = status
             /\ log' = log
             /\ reported' = reported]_vars

C19_Witness ==
    /\ status = "ok"
    /\ reported = lastBad
    /\ reported # fetched[1]
    /\ Len(log) >= 3
    /\ log[Len(log)].action = "good"

\* The three lookups have answered and the checks on their answers pass.
Joined ==
    /\ badDeploymentPromise = "fulfilled"
    /\ goodDeploymentPromise = "fulfilled"
    /\ projectPromise = "fulfilled"
    /\ badDeployment \in DepIds
    /\ goodDeployment \in DepIds
    /\ project = ProjectOf(badDeployment)
    /\ ProjectOf(badDeployment) = ProjectOf(goodDeployment)
    /\ CreatedAt(badDeployment) >= CreatedAt(goodDeployment)

\* C20: the lookups of the two references and of the project may be
\* pending together, but no history page is requested and no window exists
\* before all three have answered and the checks on them have passed.
C20_JoinedBeforeHistory ==
    (\/ requests # <<>>
     \/ deployments # <<>>
     \/ Started
     \/ pc \in {"fetch", "bisect", "loop"})
        => Joined

C20_Witness ==
    /\ goodDeploymentPromise = "pending"
    /\ projectPromise = "pending"
    /\ "org" \in issued
    /\ "good" \in issued
    /\ requests = <<>>
    /\ deployments = <<>>

\* The records of a window that are newer than a record.
NewerIn(w, d) == {i \in 1..Len(w) : CreatedAt(w[i]) > CreatedAt(d)}

\* C21 as stated: the candidate of a step is window[floor(len / 2)], and in
\* a window of even length it is one of the first len / 2 records of the
\* newest-first list, the newer half.
C21_CandidateInNewerHalf ==
    [][Len(log') = Len(log) + 1 =>
         LET n == Len(deployments)
             candidate == log'[Len(log')].deployment
         IN /\ candidate = deployments[n \div 2 + 1]
            /\ n % 2 = 0 => \E i \in 1..(n \div 2) : deployments[i] = candidate
      ]_vars

\* C21, amended: the candidate of a step is window[floor(len / 2)]; exactly
\* floor(len / 2) records of the window are newer than it, so in a window
\* of even length it is the newest record of the older half (the last
\* len / 2 records of the newest-first list) and one record fewer is older
\* than it than is newer.
C21_CandidateInOlderHalf ==
    [][Len(log') = Len(log) + 1 =>
         LET n == Len(deployments)
             candidate == log'[Len(log')].deployment
         IN /\ candidate = deployments[n \div 2 + 1]
            /\ Cardinality(NewerIn(deployments, candidate)) = n \div 2
            /\ n % 2 = 0 =>
                   /\ \A i \in 1..(n \div 2) : deployments[i] # candidate
                   /\ n - 1 - Cardinality(NewerIn(deployments, candidate))
                          = n \div 2 - 1
      ]_vars

C21_Witness ==
    /\ Started
    /\ Len(Window0) = 4
    /\ Len(log) = 2
    /\ log[1].deployment = Window0[3]
    /\ log[1].action = "good"
    /\ log[2].deployment = Window0[2]

\* C22: lastBad changes only in a step with verdict bad and becomes the
\* candidate of that step; a good or a skip leaves it as it is; the record
\* printed at the end is the seed or a record that was judged bad.
C22_LastBadOnlyOnBad ==
    /\ [][(Started /\ lastBad' # lastBad) =>
             /\ Stepped("bad")
             /\ lastBad' = deployments[Len(deployments) \div 2 + 1]
             /\ lastBad' = log'[Len(log')].deployment]_vars
    /\ [][(Stepped("good") \/ Stepped("skip")) => lastBad' = lastBad]_vars
    /\ [][Stepped("bad") => lastBad' = log'[Len(log')].deployment]_vars
    /\ [](reported # Null =>
             \/ reported = fetched[1]
             \/ \E i \in 1..Len(log) :
                    log[i] = [deployment |-> reported, action |-> "bad"])

C22_Witness ==
    /\ status = "ok"
    /\ Len(log) >= 4
    /\ log[1].action = "bad"
    /\ reported = log[1].deployment
    /\ \E i \in 2..Len(log) : log[i].action = "skip"
    /\ \E i \in 2..Len(log) : log[i].action = "good"
    /\ \A i \in 2..Len(log) : log[i].action # "bad"

\* C23: in the bisection loop every record of the window is strictly older
\* than lastBad, and every new lastBad is strictly older than the one
\* before it, whatever the verdicts.
C23_WindowOlderThanLastBad ==
    /\ [](Started =>
             \A i \in 1..Len(deployments) :
                 CreatedAt(deployments[i]) < CreatedAt(lastBad))
    /\ [][(Started /\ lastBad' # lastBad) =>
             CreatedAt(lastBad') < CreatedAt(lastBad)]_vars

C23_Witness ==
    /\ Started
    /\ Len(deployments) >= 1
    /\ Cardinality({i \in 1..Len(log) : log[i].action = "bad"}) >= 2
    /\ lastBad = log[Len(log)].deployment
    /\ lastBad # fetched[1]

\* A window holds records of the initial window only, in their order there.
SubsequenceOf(w, w0) ==
    /\ Range(w) \subseteq Range(w0)
    /\ \A i, j \in 1..Len(w) : i < j => PosIn(w0, w[i]) < PosIn(w0, w[j])

\* C24: the window is always an order-preserving subsequence of the
\* initially fetched list, every step leaves a subsequence of the window
\* before it, and no record is given to the oracle twice: a classified
\* candidate is never in the window again.
C24_WindowIsSubsequence ==
    /\ [](Started => SubsequenceOf(deployments, Window0))
    /\ [][Started => /\ SubsequenceOf(deployments', deployments)
                     /\ Len(deployments') <= Len(deployments)]_vars
    /\ [](\A i, j \in 1..Len(log) :
              i # j => log[i].deployment # log[j].deployment)
    /\ [](\A i \in 1..Len(log) : log[i].deployment \notin Range(deployments))

C24_Witness ==
    /\ Started
    /\ Len(log) >= 2
    /\ Len(deployments) >= 3
    /\ \E i \in 1..Len(log) : log[i].action = "skip"
    /\ \E i \in 1..(Len(deployments) - 1) :
           PosIn(Window0, deployments[i + 1])
               > PosIn(Window0, deployments[i]) + 1

\* Every verdict given so far is the ground truth of a history whose k
\* newest candidates are bad and whose other candidates are good, or skip.
TruthfulOrSkip(k) ==
    \A i \in 1..Len(log) :
        \/ log[i].action = "skip"
        \/ log[i].action = IF PosIn(Window0, log[i].deployment) <= k
                           THEN "bad" ELSE "good"

\* C25: with a single good->bad boundary (the seed and the k newest
\* candidates bad) and an oracle that answers the ground truth or skip,
\* the record printed is truly bad, and every truly bad record older than
\* it was skipped.
C25_OffOnlyBySkipped ==
    (status = "ok" /\ Started) =>
        \A k \in 0..Len(Window0) :
            TruthfulOrSkip(k) =>
                LET r == PosIn(fetched, reported) - 1
                IN /\ r <= k
                   /\ \A p \in (r + 1)..k :
                          \E i \in 1..Len(log) :
                              log[i] = [deployment |-> Window0[p],
                                        action |-> "skip"]

C25_Witness ==
    /\ status = "ok"
    /\ Len(Window0) >= 5
    /\ TruthfulOrSkip(3)
    /\ reported = Window0[1]
    /\ \E i \in 1..Len(log) : log[i].action = "good"
    /\ \E i \in 1..Len(log) :
           log[i] = [deployment |-> Window0[1], action |-> "bad"]
    /\ \A p \in 2..3 :
           \E i \in 1..Len(log) :
               log[i] = [deployment |-> Window0[p], action |-> "skip"]

====
